---- MODULE Spec2Model ----
(***************************************************************************)
(* A model of src/main.rs: an axum file server with two routes, "/"        *)
(* (list_wd) and "/*path" (handle_path), over a filesystem the process     *)
(* reads through tokio::fs.                                                 *)
(*                                                                         *)
(* Strings are modelled by their structure.  A path or URL string is the   *)
(* sequence of its segments (its split on "/"), and a segment or file name *)
(* is the sequence of its parts (its split on "."):                        *)
(*      "sub/data.json"  is  << <<"sub">>, <<"data","json">> >>            *)
(*      "sub/"           is  << <<"sub">>, <<"">> >>                       *)
(*      ""               is  << <<"">> >>                                  *)
(*      ".."             is  the segment <<"","","">>                      *)
(* so that joining, trimming, taking an extension and resolving a link are *)
(* computed and not looked up.                                             *)
(***************************************************************************)
EXTENDS Naturals, Sequences, FiniteSets, TLC

VARIABLES fs, req, serving

vars == <<fs, req, serving>>

-----------------------------------------------------------------------------
(* Segments and names *)

E == <<"">>
DOT == <<"", "">>
DOTDOT == <<"", "", "">>

nSrv == <<"srv">>
nSecret == <<"secret", "txt">>
nIndex == <<"index", "html">>
nSub == <<"sub">>
nData == <<"data", "json">>
nInner == <<"inner">>
nLogo == <<"logo", "PNG">>
nLink == <<"link">>
nPipe == <<"pipe">>
nReadme == <<"README">>
nGone == <<"gone">>

Last(s) == s[Len(s)]
Front(s) == SubSeq(s, 1, Len(s) - 1)

-----------------------------------------------------------------------------
(* The filesystem: a function from the absolute path of every existing     *)
(* entry (a sequence of names from the filesystem's root) to the entry.    *)

FsRoot == <<>>
Cwd == <<nSrv>>

DirEntry(order) ==
    [kind |-> "dir", order |-> order, bytes |-> <<>>, target |-> <<>>, readable |-> TRUE]
FileEntry(bytes, readable) ==
    [kind |-> "file", order |-> <<>>, bytes |-> bytes, target |-> <<>>, readable |-> readable]
SymlinkEntry(target) ==
    [kind |-> "symlink", order |-> <<>>, bytes |-> <<>>, target |-> target, readable |-> TRUE]
OtherEntry ==
    [kind |-> "other", order |-> <<>>, bytes |-> <<>>, target |-> <<>>, readable |-> TRUE]

Ok(node) == [ok |-> TRUE, node |-> node]
Err == [ok |-> FALSE, node |-> <<>>]

Parent(node) == IF node = FsRoot THEN FsRoot ELSE Front(node)

InsideRoot(node) == Len(node) >= Len(Cwd) /\ SubSeq(node, 1, Len(Cwd)) = Cwd

\* A symbolic link is followed to its target; a missing entry and a
\* dangling link are errors.
Deref(f, node) ==
    IF node \notin DOMAIN f THEN Err
    ELSE IF f[node].kind = "symlink"
    THEN IF f[node].target \in DOMAIN f THEN Ok(f[node].target) ELSE Err
    ELSE Ok(node)

\* Path resolution as the operating system does it for stat, open and
\* opendir: every segment is looked up in a directory, "" and "." stay,
\* ".." goes to the parent, every link on the way is followed.
RECURSIVE Walk(_, _, _)
Walk(f, cur, segs) ==
    IF segs = <<>> THEN Ok(cur)
    ELSE IF f[cur].kind # "dir" THEN Err
    ELSE LET s == Head(segs) IN
         IF s \in {E, DOT} THEN Walk(f, cur, Tail(segs))
         ELSE IF s = DOTDOT THEN Walk(f, Parent(cur), Tail(segs))
         ELSE LET d == Deref(f, Append(cur, s)) IN
              IF d.ok THEN Walk(f, d.node, Tail(segs)) ELSE Err

\* tokio::fs::metadata(path): relative to the working directory, following links.
Metadata(f, path) == Walk(f, Cwd, path)

is_dir(f, m) == f[m.node].kind = "dir"
is_file(f, m) == f[m.node].kind = "file"
is_symlink(f, m) == f[m.node].kind = "symlink"

\* A read that stops one byte short.
ReadFileTruncated(f, path) ==
    LET m == Metadata(f, path) IN
    IF m.ok /\ f[m.node].kind = "file" /\ f[m.node].readable
    THEN [ok |-> TRUE, bytes |-> Front(f[m.node].bytes)]
    ELSE [ok |-> FALSE, bytes |-> <<>>]

\* tokio::fs::read(path): the whole content of a readable regular file.
ReadFile(f, path) ==
    LET m == Metadata(f, path) IN
    IF m.ok /\ f[m.node].kind = "file" /\ f[m.node].readable
    THEN [ok |-> TRUE, bytes |-> f[m.node].bytes]
    ELSE [ok |-> FALSE, bytes |-> <<>>]

\* A stream that also yields the directory's own "." and ".." entries.
ReadDirEntriesWithDots(f, node) == <<DOT, DOTDOT>> \o f[node].order

\* The names a directory stream yields, in the filesystem's order.
ReadDirEntries(f, node) == f[node].order

\* tokio::fs::read_dir(path): the stream over a readable directory.
ReadDir(f, path) ==
    LET m == Metadata(f, path) IN
    IF m.ok /\ f[m.node].kind = "dir" /\ f[m.node].readable
    THEN [ok |-> TRUE, node |-> m.node, names |-> ReadDirEntries(f, m.node)]
    ELSE [ok |-> FALSE, node |-> <<>>, names |-> <<>>]

-----------------------------------------------------------------------------
(* std::path::Path on the path strings the handlers build *)

RECURSIVE TrimLeft(_)
TrimLeft(segs) ==
    IF segs # <<>> /\ Head(segs) \in {E, DOT} THEN TrimLeft(Tail(segs)) ELSE segs

RECURSIVE TrimRight(_)
TrimRight(segs) ==
    IF segs # <<>> /\ Last(segs) \in {E, DOT} THEN TrimRight(Front(segs)) ELSE segs

\* dir_path.strip_prefix("."): the leading "." component goes, and with it
\* the separators around what is left; nothing left is the empty string.
StripPrefixDot(path) ==
    LET rest == TrimRight(TrimLeft(Tail(path))) IN
    IF rest = <<>> THEN <<E>> ELSE rest

\* The display path with the "." prefix left on.
UrlDirPathKeepsDot(path) == Append(TrimRight(path), E)

\* format!("{}/", url_dir_path)
UrlDirPath(path) == Append(StripPrefixDot(path), E)

\* entry.path(): the directory's path joined with the entry's name.
JoinPath(path, name) ==
    IF Last(path) = E THEN Append(Front(path), name) ELSE Append(path, name)

\* Path::file_name: the last component, unless the path ends in "..";
\* <<>> stands for None.
FileName(path) ==
    LET comps == SelectSeq(path, LAMBDA s : s \notin {E, DOT}) IN
    IF comps = <<>> \/ Last(comps) = DOTDOT THEN <<>> ELSE Last(comps)

\* Path::extension: what follows the last "." of the file name, when the
\* name has one that is not its first character; <<>> stands for None.
Extension(path) ==
    LET name == FileName(path) IN
    IF name = <<>> \/ Len(name) = 1 \/ (Len(name) = 2 /\ name[1] = "")
    THEN <<>>
    ELSE <<Last(name)>>

-----------------------------------------------------------------------------
(* mime_guess *)

APPLICATION_OCTET_STREAM == "application/octet-stream"

\* Extensions are matched without regard to case.
Lower(ext) ==
    CASE ext = "PNG" -> "png"
      [] ext = "HTML" -> "html"
      [] ext = "JSON" -> "json"
      [] OTHER -> ext

\* mime_guess::from_path(path).first(); <<>> stands for None.
MimeGuessFirst(path) ==
    LET e == Extension(path) IN
    IF e = <<>> THEN <<>>
    ELSE CASE Lower(e[1]) = "html" -> <<"text/html">>
           [] Lower(e[1]) = "json" -> <<"application/json">>
           [] Lower(e[1]) = "png" -> <<"image/png">>
           [] Lower(e[1]) = "txt" -> <<"text/plain">>
           [] OTHER -> <<>>

\* The guess thrown away.
MimeTypeNoGuess(path) == APPLICATION_OCTET_STREAM

\* guess.unwrap_or(mime::APPLICATION_OCTET_STREAM)
MimeType(path) ==
    LET guess == MimeGuessFirst(path) IN
    IF guess = <<>> THEN APPLICATION_OCTET_STREAM ELSE guess[1]

-----------------------------------------------------------------------------
(* The HTML document list_dir builds, and the responses *)

NoHtml == [title |-> "", h1 |-> <<>>, items |-> <<>>, closed |-> FALSE]

\* The document started in a buffer that outlives the request: it still
\* holds the items of a listing another request is writing.
HtmlHeaderShared(display) ==
    [title |-> "Directory Listing", h1 |-> display,
     items |-> IF \E q \in DOMAIN req : req[q].pc = "next_entry"
               THEN req[CHOOSE q \in DOMAIN req : req[q].pc = "next_entry"].html.items
               ELSE <<>>,
     closed |-> FALSE]

\* The document up to "<ul>": the fixed title and the heading.
HtmlHeader(display) ==
    [title |-> "Directory Listing", h1 |-> display, items |-> <<>>, closed |-> FALSE]

\* The href without the directory's "/".
EntryLinkNoSlash(isDir, name) == <<name>>

\* The href of an entry: its name, with "/" after a directory's.
EntryLink(isDir, name) == IF isDir THEN <<name, E>> ELSE <<name>>

\* "<li><a href={link}>{entry_name}</a></li>"
ListItem(isDir, name) == [href |-> EntryLink(isDir, name), text |-> name]

HtmlPush(html, item) == [html EXCEPT !.items = Append(@, item)]

\* "</ul></body></html>"
HtmlClose(html) == [html EXCEPT !.closed = TRUE]

NoResponse == [status |-> 0, ctype |-> "", form |-> "none",
               html |-> NoHtml, bytes |-> <<>>, text |-> ""]

\* ctype is the media type of the Content-Type header; a charset parameter
\* is not part of it.
\* Html(html).into_response()
HtmlResponse(html) ==
    [status |-> 200, ctype |-> "text/html", form |-> "html",
     html |-> html, bytes |-> <<>>, text |-> ""]

\* Response::builder().header(CONTENT_TYPE, mime).status(OK).body(bytes)
FileResponse(mime, bytes) ==
    [status |-> 200, ctype |-> mime, form |-> "bytes",
     html |-> NoHtml, bytes |-> bytes, text |-> ""]

\* (StatusCode::INTERNAL_SERVER_ERROR, "unhandled type").into_response()
UnhandledResponse ==
    [status |-> 500, ctype |-> "text/plain", form |-> "text",
     html |-> NoHtml, bytes |-> <<>>, text |-> "unhandled type"]

-----------------------------------------------------------------------------
(* The filesystems the server is started on *)

RootOrders ==
    { <<nIndex, nSub, nLink, nPipe, nReadme>>,
      <<nReadme, nPipe, nLink, nSub, nIndex>> }

LinkTargets ==
    { <<nSrv, nSub>>, <<nSrv, nIndex>>, <<nSrv, nGone>>, <<nSecret>>, <<nSrv>> }

BaseFs(rootOrder, linkTarget, indexReadable) ==
    (FsRoot :> DirEntry(<<nSrv, nSecret>>))
    @@ (<<nSecret>> :> FileEntry(<<83, 67>>, TRUE))
    @@ (Cwd :> DirEntry(rootOrder))
    @@ (<<nSrv, nIndex>> :> FileEntry(<<60, 104, 62>>, indexReadable))
    @@ (<<nSrv, nSub>> :> DirEntry(<<nData, nInner>>))
    @@ (<<nSrv, nSub, nData>> :> FileEntry(<<123, 125>>, TRUE))
    @@ (<<nSrv, nSub, nInner>> :> DirEntry(<<nLogo>>))
    @@ (<<nSrv, nSub, nInner, nLogo>> :> FileEntry(<<137, 80>>, TRUE))
    @@ (<<nSrv, nLink>> :> SymlinkEntry(linkTarget))
    @@ (<<nSrv, nPipe>> :> OtherEntry)
    @@ (<<nSrv, nReadme>> :> FileEntry(<<>>, TRUE))

\* The request paths clients send: what follows the leading "/" of the URL.
RequestUrls ==
    { <<E>>,
      <<nIndex>>, <<nIndex, E>>, <<E, nIndex>>,
      <<nSub>>, <<nSub, E>>, <<nSub, nData>>, <<nSub, nInner, nLogo>>,
      <<nLink>>, <<nLink, E>>,
      <<nPipe>>, <<nReadme>>, <<nGone>>,
      <<DOTDOT>>, <<DOTDOT, nSecret>>, <<nSub, DOTDOT, nIndex>> }

\* Concurrent connections, each carrying one request at a time.
Requests == {1, 2}

\* How many links in a row a client follows from one listing to the next.
MaxHops == 3

-----------------------------------------------------------------------------
(* One request: the handler's locals and its position *)

IdleReq ==
    [pc |-> "idle", route |-> "", url |-> <<>>, path |-> <<>>, node |-> Err,
     mime |-> "", stream |-> <<>>, html |-> NoHtml, resp |-> NoResponse,
     failedAt |-> "", expect |-> Err, hops |-> 0, disturbed |-> FALSE]

\* Router::new().route("/", get(list_wd)).route("/*path", get(handle_path))
Route(url) == IF url = <<E>> THEN "list_wd" ELSE "handle_path"

\* The handler is entered: list_wd calls list_dir("."), handle_path builds
\* "./{path}" and is about to query its metadata.
Enter(url, expect, hops) ==
    IF Route(url) = "list_wd"
    THEN [IdleReq EXCEPT !.pc = "read_dir", !.route = "list_wd", !.url = url,
                         !.path = <<DOT>>, !.expect = expect, !.hops = hops]
    ELSE [IdleReq EXCEPT !.pc = "metadata", !.route = "handle_path", !.url = url,
                         !.path = <<DOT>> \o url, !.expect = expect, !.hops = hops]

Responded(rec, resp) ==
    [rec EXCEPT !.pc = "responded", !.resp = resp, !.mime = "",
                !.stream = <<>>, !.html = NoHtml]

Panicked(rec, where) ==
    [rec EXCEPT !.pc = "panicked", !.failedAt = where, !.mime = "",
                !.stream = <<>>, !.html = NoHtml]

\* A panic that takes the process down: every request in flight is lost
\* and nothing is served any more.
PanicAbortsProcess(r, where) ==
    /\ req' = [q \in DOMAIN req |->
                  IF q = r \/ req[q].pc \notin {"idle", "responded", "panicked"}
                  THEN Panicked(req[q], where)
                  ELSE req[q]]
    /\ serving' = FALSE
    /\ UNCHANGED fs

\* An unwrap() on an Err panics: the task of this connection unwinds and the
\* connection is dropped without a response; the runtime, the listener and
\* the other connections' tasks go on.
Panic(r, where) ==
    /\ req' = [req EXCEPT ![r] = Panicked(@, where)]
    /\ UNCHANGED <<fs, serving>>

-----------------------------------------------------------------------------
(* The handlers run from entry to return on one filesystem snapshot: what  *)
(* a request yields when nothing else runs.  The result is the final pc,   *)
(* the response and the unwrap() that panicked.                            *)

Returned(resp) == [pc |-> "responded", resp |-> resp, failedAt |-> ""]
Unwound(where) == [pc |-> "panicked", resp |-> NoResponse, failedAt |-> where]

RECURSIVE ListDirLoop(_, _, _, _)
ListDirLoop(f, path, names, html) ==
    IF names = <<>> THEN Returned(HtmlResponse(HtmlClose(html)))
    ELSE LET m == Metadata(f, JoinPath(path, Head(names))) IN
         IF ~m.ok THEN Unwound("entry_metadata")
         ELSE ListDirLoop(f, path, Tail(names),
                          HtmlPush(html, ListItem(is_dir(f, m), Head(names))))

list_dir(f, path) ==
    LET d == ReadDir(f, path) IN
    IF ~d.ok THEN Unwound("read_dir")
    ELSE ListDirLoop(f, path, d.names, HtmlHeader(UrlDirPath(path)))

list_wd(f) == list_dir(f, <<DOT>>)

handle_path(f, url) ==
    LET path == <<DOT>> \o url
        m == Metadata(f, path) IN
    IF ~m.ok THEN Unwound("metadata")
    ELSE IF is_dir(f, m) THEN list_dir(f, path)
    ELSE IF is_file(f, m) \/ is_symlink(f, m)
    THEN LET b == ReadFile(f, path) IN
         IF ~b.ok THEN Unwound("read")
         ELSE Returned(FileResponse(MimeType(path), b.bytes))
    ELSE Returned(UnhandledResponse)

\* What the router's handler for this URL yields.
Serve(f, url) == IF Route(url) = "list_wd" THEN list_wd(f) ELSE handle_path(f, url)

Init ==
    /\ \E o \in RootOrders, t \in LinkTargets, rd \in BOOLEAN : fs = BaseFs(o, t, rd)
    /\ req = [r \in Requests |-> IdleReq]
    /\ serving = TRUE

\* A connection delivers a request and the router enters its handler.
Receive(r, url) ==
    /\ serving
    /\ req[r].pc = "idle"
    /\ req' = [req EXCEPT ![r] = Enter(url, Err, 0)]
    /\ UNCHANGED <<fs, serving>>

\* handle_path from the metadata query to its next await or its return.
HandlePathMetadata(r) ==
    /\ serving
    /\ req[r].pc = "metadata"
    /\ LET m == Metadata(fs, req[r].path) IN
       IF ~m.ok THEN Panic(r, "metadata")
       ELSE /\ req' = [req EXCEPT ![r] =
                  IF is_dir(fs, m)
                  THEN [@ EXCEPT !.pc = "read_dir", !.node = m]
                  ELSE IF is_file(fs, m) \/ is_symlink(fs, m)
                  THEN [@ EXCEPT !.pc = "read", !.node = m, !.mime = MimeType(req[r].path)]
                  ELSE Responded([@ EXCEPT !.node = m], UnhandledResponse)]
            /\ UNCHANGED <<fs, serving>>

\* handle_path from the file read to its return.
HandlePathRead(r) ==
    /\ serving
    /\ req[r].pc = "read"
    /\ LET b == ReadFile(fs, req[r].path) IN
       IF ~b.ok THEN Panic(r, "read")
       ELSE /\ req' = [req EXCEPT ![r] = Responded(@, FileResponse(@.mime, b.bytes))]
            /\ UNCHANGED <<fs, serving>>

\* list_dir from its entry to the loop: the display path, the directory
\* stream, the document's header.
ListDirOpen(r) ==
    /\ serving
    /\ req[r].pc = "read_dir"
    /\ LET d == ReadDir(fs, req[r].path) IN
       IF ~d.ok THEN Panic(r, "read_dir")
       ELSE /\ req' = [req EXCEPT ![r] =
                  [@ EXCEPT !.pc = "next_entry", !.node = Ok(d.node),
                            !.stream = d.names,
                            !.html = HtmlHeader(UrlDirPath(req[r].path))]]
            /\ UNCHANGED <<fs, serving>>

\* One turn of list_dir's loop: the next entry and its metadata, or the end
\* of the stream and the return.
ListDirNext(r) ==
    /\ serving
    /\ req[r].pc = "next_entry"
    /\ IF req[r].stream = <<>>
       THEN /\ req' = [req EXCEPT ![r] = Responded(@, HtmlResponse(HtmlClose(@.html)))]
            /\ UNCHANGED <<fs, serving>>
       ELSE LET name == Head(req[r].stream)
                m == Metadata(fs, JoinPath(req[r].path, name)) IN
            IF ~m.ok THEN Panic(r, "entry_metadata")
            ELSE /\ req' = [req EXCEPT ![r] =
                       [@ EXCEPT !.stream = Tail(@),
                                 !.html = HtmlPush(@, ListItem(is_dir(fs, m), name))]]
                 /\ UNCHANGED <<fs, serving>>

\* The response has been written, or the connection dropped: the slot is free.
Close(r) ==
    /\ serving
    /\ req[r].pc \in {"responded", "panicked"}
    /\ req' = [req EXCEPT ![r] = IdleReq]
    /\ UNCHANGED <<fs, serving>>

\* A relative reference without dot segments resolved against the URL of
\* the page it is on: it replaces what follows the base's last "/".
ResolveHref(base, href) == Front(base) \o href

\* A client that started at "/" follows the i-th anchor of the listing it
\* received.  expect is the entry the anchor was written for: the child of
\* the listed directory with the anchor's name, links followed.
Follow(r, i) ==
    /\ serving
    /\ req[r].pc = "responded"
    /\ req[r].resp.form = "html"
    /\ req[r].url = <<E>> \/ req[r].hops > 0
    /\ req[r].hops < MaxHops
    /\ i \in 1..Len(req[r].resp.html.items)
    /\ LET a == req[r].resp.html.items[i] IN
       req' = [req EXCEPT ![r] =
                  Enter(ResolveHref(@.url, a.href),
                        Deref(fs, Append(@.node.node, a.text)),
                        @.hops + 1)]
    /\ UNCHANGED <<fs, serving>>

Next ==
    \/ \E r \in Requests, url \in RequestUrls : Receive(r, url)
    \/ \E r \in Requests : HandlePathMetadata(r)
    \/ \E r \in Requests : HandlePathRead(r)
    \/ \E r \in Requests : ListDirOpen(r)
    \/ \E r \in Requests : ListDirNext(r)
    \/ \E r \in Requests : Close(r)
    \/ \E r \in Requests, i \in 1..5 : Follow(r, i)

Spec == Init /\ [][Next]_vars

-----------------------------------------------------------------------------
(* The filesystem changing under a request: another process unlinks an     *)
(* entry or takes the read permission away between two awaits.             *)

Removable == { <<nSrv, nIndex>>, <<nSrv, nSub, nData>> }
Revocable == { <<nSrv, nIndex>>, <<nSrv, nSub>> }

\* The requests already past handle_path's metadata query see the change.
Disturb ==
    [r \in Requests |->
        IF req[r].route = "handle_path" /\ req[r].pc \in {"read", "read_dir", "next_entry"}
        THEN [req[r] EXCEPT !.disturbed = TRUE]
        ELSE req[r]]

FsRemove(p) ==
    /\ p \in DOMAIN fs
    /\ fs' = [q \in DOMAIN fs \ {p} |->
                 IF q = Parent(p)
                 THEN [fs[q] EXCEPT !.order = SelectSeq(@, LAMBDA n : n # Last(p))]
                 ELSE fs[q]]
    /\ req' = Disturb
    /\ UNCHANGED serving

FsRevoke(p) ==
    /\ p \in DOMAIN fs
    /\ fs[p].readable
    /\ fs' = [fs EXCEPT ![p].readable = FALSE]
    /\ req' = Disturb
    /\ UNCHANGED serving

\* Started on a filesystem where every request path that exists can be served.
InitRace ==
    /\ fs = BaseFs(<<nIndex, nSub, nLink, nPipe, nReadme>>, <<nSrv, nSub>>, TRUE)
    /\ req = [r \in Requests |-> IdleReq]
    /\ serving = TRUE

NextRace ==
    \/ Next
    \/ \E p \in Removable : FsRemove(p)
    \/ \E p \in Revocable : FsRevoke(p)

SpecRace == InitRace /\ [][NextRace]_vars

-----------------------------------------------------------------------------
(* Properties *)

Done(r) == req[r].pc \in {"responded", "panicked"}

\* The immediate children of a directory: the entries one name below it.
Children(f, dir) == { q \in DOMAIN f : Len(q) = Len(dir) + 1 /\ Front(q) = dir }

\* Whether the entry, links followed, is a directory.
IsDirectory(f, node) == LET d == Deref(f, node) IN d.ok /\ f[d.node].kind = "dir"

\* The registered media types of the names served here, by extension.
RegisteredType(name) ==
    CASE name = nIndex -> "text/html"
      [] name = nData -> "application/json"
      [] name = nLogo -> "image/png"
      [] name = nSecret -> "text/plain"
      [] OTHER -> "application/octet-stream"

\* The response handle_path owes an entry of this kind.
ByKind(r) ==
    LET q == req[r]
        k == fs[q.node.node].kind IN
    /\ q.pc = "responded"
    /\ k = "dir" =>
          /\ q.resp.status = 200 /\ q.resp.ctype = "text/html" /\ q.resp.form = "html"
          /\ q.resp.html.closed
          /\ q.resp.html.h1 = UrlDirPath(q.path)
          /\ Len(q.resp.html.items) = Cardinality(Children(fs, q.node.node))
    /\ k \in {"file", "symlink"} =>
          /\ q.resp.status = 200 /\ q.resp.form = "bytes"
          /\ q.resp.ctype = RegisteredType(Last(q.url))
          /\ q.resp.bytes = fs[q.node.node].bytes
    /\ k \notin {"dir", "file", "symlink"} =>
          /\ q.resp.status = 500 /\ q.resp.form = "text"
          /\ q.resp.text = "unhandled type"

C2_MissingPathIs404 ==
    \A r \in Requests :
        (Done(r) /\ req[r].route = "handle_path" /\ ~Metadata(fs, req[r].path).ok)
            => (req[r].pc = "responded" /\ req[r].resp.status = 404)

\* C3: every entry a request has queried, enumerated or read lies inside
\* the served root.
C3_StaysInsideRoot ==
    \A r \in Requests : req[r].node.ok => InsideRoot(req[r].node.node)

\* C4: the server keeps serving, and every finished request ended exactly
\* as its handler ends when run alone on the filesystem, whatever the other
\* connection's request did: it panicked only on a failure of its own.
C4_FailuresAreContained ==
    /\ serving
    /\ \A r \in Requests :
          Done(r) =>
              LET alone == Serve(fs, req[r].url) IN
              /\ req[r].pc = alone.pc
              /\ req[r].resp = alone.resp
              /\ req[r].failedAt = alone.failedAt

C4_Witness ==
    \E r1, r2 \in Requests :
        /\ req[r1].pc = "panicked"
        /\ req[r2].pc = "responded" /\ req[r2].resp.status = 200

\* C5: a request under which the filesystem changed after its metadata
\* query ends with a response, and with a 4xx or 5xx one when a later
\* step of it failed.
C5_RaceStillResponds ==
    \A r \in Requests :
        (Done(r) /\ req[r].disturbed) =>
            /\ req[r].pc = "responded"
            /\ req[r].failedAt # "" => req[r].resp.status \in 400..599

C7_Idempotent ==
    \A r1, r2 \in Requests :
        (Done(r1) /\ Done(r2) /\ req[r1].url = req[r2].url) =>
            (req[r1].pc = req[r2].pc /\ req[r1].resp = req[r2].resp)

C7_Witness ==
    \E r1, r2 \in Requests :
        /\ r1 # r2 /\ req[r1].url = req[r2].url
        /\ req[r1].pc = "responded" /\ req[r2].pc = "responded"
        /\ req[r1].resp.form = "html" /\ Len(req[r1].resp.html.items) > 0

\* The request resolved to a regular file under the root.
ServesFile(r) ==
    /\ Done(r) /\ req[r].route = "handle_path"
    /\ req[r].node.ok /\ InsideRoot(req[r].node.node)
    /\ fs[req[r].node.node].kind = "file"

RoundTrip(r) ==
    /\ req[r].pc = "responded"
    /\ req[r].resp.status = 200
    /\ req[r].resp.form = "bytes"
    /\ req[r].resp.bytes = fs[req[r].node.node].bytes

RootListing(r) ==
    /\ req[r].pc = "responded"
    /\ req[r].resp.status = 200
    /\ req[r].resp.ctype = "text/html"
    /\ req[r].resp.form = "html"
    /\ req[r].resp.html.h1 = <<E, E>>

\* The outcome is handle_path's for the empty captured path.
AsEmptyPath(r) ==
    LET general == handle_path(fs, <<E>>) IN
    /\ req[r].pc = general.pc
    /\ req[r].resp = general.resp

C10_LinksLeadToTheirEntries ==
    \A r \in Requests :
        (req[r].hops > 0 /\ req[r].pc # "metadata") =>
            /\ req[r].route = "handle_path"
            /\ req[r].expect.ok
            /\ req[r].node = req[r].expect
            /\ fs[req[r].node.node].kind = "dir" => Last(req[r].url) = E

C10_Witness ==
    \E r \in Requests :
        /\ req[r].hops = 3 /\ req[r].pc = "responded"
        /\ req[r].node.node = <<nSrv, nSub, nInner, nLogo>>

====
